---- MODULE Spec2Model ----
(***************************************************************************)
(* Real-time audio analysis pipeline of pitched (useRealtimeAnalysis hook, *)
(* sanitizeTips, PaceTracker).  The hook of src/unnamed/part_021 is the    *)
(* variant modelled: PCM accumulate-and-cut capture, MAX_INFLIGHT          *)
(* pipelining, sequence-based staleness check, tip guardrails and the      *)
(* local pace tracker.                                                      *)
(*                                                                         *)
(* Representation.  A JavaScript string is a sequence of one-character     *)
(* strings (<<"a"," ","b">>), so that trimming, splitting, lower-casing    *)
(* and substring search are computed.  A JavaScript number that is not an  *)
(* integer is an exact rational <<n, d>> with d > 0 in lowest terms.       *)
(* null / undefined is Null.                                                *)
(***************************************************************************)
EXTENDS Integers, Sequences, FiniteSets, TLC

Null == "null"

(***************************************************************************)
(* Bounds of the model                                                     *)
(***************************************************************************)
MaxRequests == 3   \* requests dispatched, over all sessions
MaxSessions == 2   \* calls of startAnalysis
MaxChunks == 1     \* PCM chunks buffered between two harvests
MaxPaceTicks == 1  \* pace-interval callbacks per session
MaxClock == 1      \* number of times the clock advances
MaxBurst == 4      \* requests dispatched, over all sessions, in SpecDispatch
MaxAccepted == 8   \* tips accepted before the last sanitizeTips call in SpecTips
MaxFrames == 4     \* audio frames delivered in SpecSegmenter
MaxCycles == 3     \* cycle ticks in SpecSegmenter
MaxCalls == 3      \* analyzeAudio calls in SpecRealtime
MaxSockets == 2    \* WebSockets created in SpecRealtime
MaxContextFrames == 2  \* audio frames delivered in SpecContext
MaxContextCycles == 2  \* cycle ticks in SpecContext
FrameBytes == 1024 \* bytes one audio frame adds to a recorded blob
MaxExcess == 3     \* characters beyond the budget of a transcript in SpecTail
MaxWords == 35     \* words held by the PaceTracker in SpecPace
MaxUpdates == 3    \* PaceTracker.update calls in SpecPace
MaxPaceClock == 2900  \* largest value of the clock in SpecPace

(***************************************************************************)
(* Program constants                                                       *)
(***************************************************************************)
MAX_INFLIGHT == 3
MIN_AUDIO_SAMPLES == 2400
CHUNK_SAMPLES == 4096
RECENT_TIPS_WINDOW == 6
MAX_TIP_WORDS == 12
WINDOW_MS == 1800
SILENCE_THRESHOLD_MS == 800
MAX_TRANSCRIPT_CHARS == 1500
MIN_AUDIO_BYTES == 512
MIN_TRANSCRIPT_LENGTH == 20

(***************************************************************************)
(* Strings as character sequences                                          *)
(***************************************************************************)
UpperChars == <<"A","B","C","D","E","F","G","H","I","J","K","L","M",
                "N","O","P","Q","R","S","T","U","V","W","X","Y","Z">>
LowerChars == <<"a","b","c","d","e","f","g","h","i","j","k","l","m",
                "n","o","p","q","r","s","t","u","v","w","x","y","z">>
DigitChars == {"0","1","2","3","4","5","6","7","8","9"}

IsSpace(c) == c = " "

ToLowerChar(c) ==
  IF \E i \in 1..26 : UpperChars[i] = c
  THEN LowerChars[CHOOSE i \in 1..26 : UpperChars[i] = c]
  ELSE c

ToUpperChar(c) ==
  IF \E i \in 1..26 : LowerChars[i] = c
  THEN UpperChars[CHOOSE i \in 1..26 : LowerChars[i] = c]
  ELSE c

ToLowerCase(t) == [i \in 1..Len(t) |-> ToLowerChar(t[i])]

RECURSIVE TrimStart(_)
TrimStart(t) ==
  IF t # <<>> /\ IsSpace(Head(t)) THEN TrimStart(Tail(t)) ELSE t

RECURSIVE TrimEnd(_)
TrimEnd(t) ==
  IF t # <<>> /\ IsSpace(t[Len(t)]) THEN TrimEnd(SubSeq(t, 1, Len(t) - 1)) ELSE t

Trim(t) == TrimEnd(TrimStart(t))

\* String.prototype.includes: b occurs in a as a contiguous substring
Includes(a, b) ==
  \E i \in 0..(Len(a) - Len(b)) : SubSeq(a, i + 1, i + Len(b)) = b

\* text.split(/\s+/): the pieces between maximal runs of whitespace; a
\* leading or trailing run leaves an empty piece, and "" splits into [""]
RECURSIVE SplitFrom(_, _, _, _)
SplitFrom(t, i, cur, acc) ==
  IF i > Len(t) THEN Append(acc, cur)
  ELSE IF IsSpace(t[i])
       THEN IF i > 1 /\ IsSpace(t[i - 1])
            THEN SplitFrom(t, i + 1, cur, acc)
            ELSE SplitFrom(t, i + 1, <<>>, Append(acc, cur))
       ELSE SplitFrom(t, i + 1, Append(cur, t[i]), acc)

SplitWhitespace(t) == SplitFrom(t, 1, <<>>, <<>>)

\* words.join(' ')
RECURSIVE JoinWords(_)
JoinWords(ws) ==
  IF ws = <<>> THEN <<>>
  ELSE IF Len(ws) = 1 THEN ws[1]
  ELSE ws[1] \o <<" ">> \o JoinWords(Tail(ws))

\* .filter(Boolean) on an array of strings: the non-empty ones
RECURSIVE NonEmptyPieces(_)
NonEmptyPieces(ws) ==
  IF ws = <<>> THEN <<>>
  ELSE IF Head(ws) = <<>> THEN NonEmptyPieces(Tail(ws))
  ELSE <<Head(ws)>> \o NonEmptyPieces(Tail(ws))

countWords(text) ==
  IF text = Null \/ text = <<>> THEN 0
  ELSE Len(NonEmptyPieces(SplitWhitespace(Trim(text))))

(***************************************************************************)
(* Feedback guardrails: normalizeTip, sanitizeTips                         *)
(***************************************************************************)
ForbiddenPrefixes ==
  << <<"Y","o","u"," ","s","a","i","d">>,
     <<"Y","o","u"," ","m","e","n","t","i","o","n","e","d">>,
     <<"Y","o","u","r"," ","p","i","t","c","h">>,
     <<"Y","o","u"," ","s","h","o","u","l","d">>,
     <<"T","h","e"," ","u","s","e","r">>,
     <<"T","r","y"," ","t","o">>,
     <<"C","o","n","s","i","d","e","r">> >>

TrailingWords ==
  { <<"a","n","d">>, <<"b","u","t">>, <<"o","r">>, <<"t","h","e">>, <<"a">>,
    <<"t","o">>, <<"f","o","r">>, <<"i","n">>, <<"o","n">>,
    <<"w","i","t","h">>, <<"t","h","a","t">>, <<"i","s">> }

StartsWithIgnoreCase(t, p) ==
  /\ Len(t) >= Len(p)
  /\ \A i \in 1..Len(p) : ToLowerChar(t[i]) = ToLowerChar(p[i])

\* text.replace(/^(You said|...|Consider)\s*/i, ''): one replacement, the
\* first alternative that matches at position 0, then the whitespace run
StripForbiddenPrefix(t) ==
  IF \E k \in 1..Len(ForbiddenPrefixes) : StartsWithIgnoreCase(t, ForbiddenPrefixes[k])
  THEN LET k == CHOOSE j \in 1..Len(ForbiddenPrefixes) :
                  /\ StartsWithIgnoreCase(t, ForbiddenPrefixes[j])
                  /\ \A m \in 1..(j - 1) : ~StartsWithIgnoreCase(t, ForbiddenPrefixes[m])
       IN TrimStart(SubSeq(t, Len(ForbiddenPrefixes[k]) + 1, Len(t)))
  ELSE t

\* text[0].toUpperCase() + text.slice(1)
CapitalizeFirst(t) ==
  IF Len(t) > 0 THEN <<ToUpperChar(t[1])>> \o Tail(t) ELSE t

\* text.replace(/\s+(and|but|...|is)$/i, ''): the leftmost whitespace run
\* that is followed by one of the words and the end of the text
StripTrailingWord(t) ==
  LET Starts == { i \in 1..Len(t) :
                    /\ IsSpace(t[i])
                    /\ \E j \in i..Len(t) :
                         /\ \A m \in i..j : IsSpace(t[m])
                         /\ ToLowerCase(SubSeq(t, j + 1, Len(t))) \in TrailingWords }
  IN IF Starts = {} THEN t
     ELSE LET i == CHOOSE x \in Starts : \A y \in Starts : x <= y
          IN SubSeq(t, 1, i - 1)

TruncateTip_None(text) == text

\* Truncate to MAX_TIP_WORDS
TruncateTip(text) ==
  LET words == SplitWhitespace(text)
  IN IF Len(words) > MAX_TIP_WORDS
     THEN StripTrailingWord(JoinWords(SubSeq(words, 1, MAX_TIP_WORDS)))
     ELSE text

NormalChars ==
  {LowerChars[i] : i \in 1..26} \cup DigitChars \cup {" "}

RECURSIVE KeepChars(_, _)
KeepChars(t, keep) ==
  IF t = <<>> THEN <<>>
  ELSE IF Head(t) \in keep THEN <<Head(t)>> \o KeepChars(Tail(t), keep)
  ELSE KeepChars(Tail(t), keep)

\* text.toLowerCase().replace(/[^a-z0-9\s]/g, '').trim()
normalizeTip(text) == Trim(KeepChars(ToLowerCase(text), NormalChars))

\* The text of one tip after prefix stripping, capitalisation and truncation
CleanTipText(raw) == TruncateTip(CapitalizeFirst(StripForbiddenPrefix(Trim(raw))))

IsDuplicate(text, recent) ==
  LET norm == normalizeTip(text)
  IN \E k \in 1..Len(recent) :
       LET r == normalizeTip(recent[k])
       IN r = norm \/ Includes(r, norm) \/ Includes(norm, r)

\* The loop of sanitizeTips: every tip is compared with the window as it
\* was when the call began
RECURSIVE CleanedTips(_, _)
CleanedTips(tips, recent) ==
  IF tips = <<>> THEN <<>>
  ELSE LET tip == Head(tips)
           text == CleanTipText(tip.text)
           rest == CleanedTips(Tail(tips), recent)
       IN IF ~IsDuplicate(text, recent) /\ Len(text) > 0
          THEN <<[tip EXCEPT !.text = text]>> \o rest
          ELSE rest

LastN_All(s, n) == s
LastN(s, n) == IF Len(s) > n THEN SubSeq(s, Len(s) - n + 1, Len(s)) ELSE s

sanitizeTips_RecordAll(tips, recent) ==
  [cleaned |-> CleanedTips(tips, recent),
   recent  |-> LastN(recent \o [i \in 1..Len(tips) |-> CleanTipText(tips[i].text)],
                     RECENT_TIPS_WINDOW)]

\* sanitizeTips(tips) with recentTipTexts = recent: the returned list and
\* the window it leaves
sanitizeTips(tips, recent) ==
  LET cleaned == CleanedTips(tips, recent)
  IN [cleaned |-> cleaned,
      recent  |-> LastN(recent \o [i \in 1..Len(cleaned) |-> cleaned[i].text],
                        RECENT_TIPS_WINDOW)]

(***************************************************************************)
(* Exact rational arithmetic for the pace score                            *)
(***************************************************************************)
Abs(x) == IF x < 0 THEN -x ELSE x

RECURSIVE GCD(_, _)
GCD(a, b) == IF b = 0 THEN a ELSE GCD(b, a % b)

Rat(n, d) ==
  LET sn == IF d < 0 THEN -n ELSE n
      sd == Abs(d)
      g  == GCD(Abs(sn), sd)
  IN <<sn \div g, sd \div g>>

RAdd(a, b) == Rat(a[1] * b[2] + b[1] * a[2], a[2] * b[2])
RSub(a, b) == Rat(a[1] * b[2] - b[1] * a[2], a[2] * b[2])
RMul(a, b) == Rat(a[1] * b[1], a[2] * b[2])
RDiv(a, b) == Rat(a[1] * b[2], a[2] * b[1])
RLess(a, b) == a[1] * b[2] < b[1] * a[2]
RAbs(a) == <<Abs(a[1]), a[2]>>
RZero == <<0, 1>>
ROne == <<1, 1>>
RMinusOne == <<-1, 1>>

\* Math.max(-1, Math.min(1, x))
Clamp_Identity(x) == x
Clamp(x) ==
  IF RLess(ROne, x) THEN ROne ELSE IF RLess(x, RMinusOne) THEN RMinusOne ELSE x

(***************************************************************************)
(* PaceTracker                                                             *)
(***************************************************************************)
OPTIMAL_WPS == <<5, 2>>
SILENCE_DECAY == <<23, 25>>
BIAS == <<11, 10>>

NewPaceTracker ==
  [wordTimestamps |-> <<>>, smoothedPace |-> RZero, lastWordTime |-> 0]

addWords(t, count, timestamp) ==
  [t EXCEPT !.wordTimestamps = @ \o [i \in 1..count |-> timestamp],
            !.lastWordTime = IF count > 0 THEN timestamp ELSE @]

\* while (wordTimestamps.length > 0 && wordTimestamps[0] < cutoff) shift()
RECURSIVE Evict(_, _)
Evict(ws, cutoff) ==
  IF ws # <<>> /\ Head(ws) < cutoff THEN Evict(Tail(ws), cutoff) ELSE ws

Alpha_Fixed(delta) == <<3, 20>>
\* delta > 0.3 ? 0.45 : delta > 0.15 ? 0.3 : 0.15
Alpha(delta) ==
  IF RLess(<<3, 10>>, delta) THEN <<9, 20>>
  ELSE IF RLess(<<3, 20>>, delta) THEN <<3, 10>>
  ELSE <<3, 20>>

InSilence(t, now0) ==
  t.lastWordTime > 0 /\ (now0 - t.lastWordTime) > SILENCE_THRESHOLD_MS

\* update(now): the tracker it leaves and the value it returns
update(t, now0) ==
  LET ws == Evict(t.wordTimestamps, now0 - WINDOW_MS)
      wps == Rat(Len(ws) * 1000, WINDOW_MS)
      paceScore == Clamp(RDiv(RSub(wps, OPTIMAL_WPS), OPTIMAL_WPS))
      delta == RAbs(RSub(paceScore, t.smoothedPace))
      alpha == Alpha(delta)
      smoothed ==
        IF InSilence(t, now0)
        THEN RMul(t.smoothedPace, SILENCE_DECAY)
        ELSE RAdd(RMul(alpha, paceScore), RMul(RSub(ROne, alpha), t.smoothedPace))
  IN [tracker |-> [t EXCEPT !.wordTimestamps = ws, !.smoothedPace = smoothed],
      ret     |-> Clamp(RMul(smoothed, BIAS))]

resetTracker_Keep(t) == t
resetTracker(t) == NewPaceTracker

\* Math.round(raw * 100) / 100, Math.round rounding halves up
RoundHundredths(raw) ==
  Rat((200 * raw[1] + raw[2]) \div (2 * raw[2]), 100)

(***************************************************************************)
(* The hook useRealtimeAnalysis: state                                     *)
(***************************************************************************)
VARIABLES
  state,                \* the React state (AnalysisState)
  paceTracker,          \* paceTrackerRef.current
  prevWordCountRef,
  recentTipTexts,       \* module-level sliding window of sanitizeTips
  pcmChunksRef,         \* number of buffered PCM chunks of CHUNK_SAMPLES samples
  intervalRef,          \* TRUE iff intervalRef.current holds a live interval
  paceIntervalRef,      \* TRUE iff paceIntervalRef.current holds a live interval
  activeRef,
  seqRef,
  lastDisplayedSeqRef,
  inflightRef,
  leakedTimers,         \* TRUE iff a start overwrote live intervals / audio nodes
  pending,              \* requests handed to window.pitchly.analyzeAudio, unsettled
  now,                  \* performance.now(), in ms
  session,              \* history: number of startAnalysis calls so far
  dispatched,           \* history: seqs dispatched in this session, in order
  paceTicks,            \* history: pace callbacks run in this session
  fired,                \* history: requests dispatched since the hook was mounted
  arrival,              \* history: the response handled last in this session
  maxDataSeq,           \* history: largest seq that arrived with data in this session
  failureSeen,          \* history: a request of this session failed
  foreignArrivals,      \* history: responses of earlier sessions handled in this one
  lastOp,               \* history: the operation or callback that ran last
  audioSession,         \* history: the last startAnalysis found an audio track
  paceRet,              \* history: the value the last PaceTracker.update returned
  tipIn,                \* sanitizeTips on its own: the tips of the last call
  tipOut,               \* sanitizeTips on its own: what the last call returned
  acceptedLog,          \* sanitizeTips on its own: texts accepted since the reset
  tailIn,               \* tailTranscript on its own: the transcript passed last
  tailOut,              \* tailTranscript on its own: what that call returned
  currentSlotRef,       \* double-buffered hook: the slot that is recording
  recorders,            \* double-buffered hook: recorderARef, recorderBRef
  stoppingRecorders,    \* MediaRecorders whose stop() task has not run yet
  frameNo,              \* audio frames the track has delivered so far
  segments,             \* history: the blobs stopAndCollect resolved with
  missed,               \* history: frames after the first cycle no recorder gathered
  cycles,               \* history: cycle ticks of the double-buffered hook
  transcriptRef,        \* double-buffered hook: the transcript passed as context
  realtimeService,      \* main process: the fields of the RealtimeService object
  wire,                 \* the WebSockets it created and the promises it returned
  sent                  \* double-buffered hook: the analyzeAudio calls made

\* What belongs to the components exercised on their own
offHook == <<tipIn, tipOut, acceptedLog, tailIn, tailOut, currentSlotRef,
             recorders, stoppingRecorders, frameNo, segments, missed, cycles, transcriptRef,
              realtimeService, wire, sent>>

vars == <<state, paceTracker, prevWordCountRef, recentTipTexts, pcmChunksRef,
          intervalRef, paceIntervalRef, activeRef, seqRef, lastDisplayedSeqRef,
          inflightRef, leakedTimers, pending, now, session, dispatched,
          paceTicks, fired, arrival, maxDataSeq, failureSeen,
          foreignArrivals, lastOp, audioSession, paceRet, tipIn, tipOut,
          acceptedLog, tailIn, tailOut, currentSlotRef, recorders,
          stoppingRecorders, frameNo, segments, missed, cycles, transcriptRef,
              realtimeService, wire, sent>>

ClockStart == 1000   \* performance.now() when the hook is mounted
ClockStep == 1000    \* granularity of the passage of time

(***************************************************************************)
(* Values exchanged with the analysis service                              *)
(***************************************************************************)
TxtPause == <<"Y","o","u"," ","s","h","o","u","l","d"," ","p","a","u","s","e">>
TxtSlow == <<"S","l","o","w"," ","d","o","w","n">>
TxtPauseMore == <<"P","a","u","s","e"," ","m","o","r","e">>
TrShort == <<"w","e"," ","b","u","i","l","d">>
TrLong == <<"w","e"," ","b","u","i","l","d"," ","f","a","s","t"," ","a","p","p","s">>

\* PitchData | null.  coachNote stands for the payload the service wrote for
\* one request (signals, coachNote): it names the request it answers.
NoData == [present |-> FALSE, coachNote |-> <<0, 0>>, tips |-> <<>>]

\* AnalyzeAudioResponse values the service may resolve with; an absent
\* transcript is the empty string (both are falsy)
ResultShapes ==
  [ failed  |-> [error |-> "Realtime API error", transcript |-> <<>>, tips |-> <<>>, hasData |-> FALSE],
    first   |-> [error |-> Null, transcript |-> TrShort, hasData |-> TRUE,
                 tips |-> <<[id |-> "t1", text |-> TxtPause]>>],
    second  |-> [error |-> Null, transcript |-> TrLong, hasData |-> TRUE,
                 tips |-> <<[id |-> "t2", text |-> TxtSlow],
                            [id |-> "t3", text |-> TxtPauseMore]>>],
    nodata  |-> [error |-> Null, transcript |-> TrLong, tips |-> <<>>, hasData |-> FALSE] ]

ShapeNames == {"failed", "first", "second", "nodata"}

\* Values a rejected IPC call may carry
Rejections ==
  { [isError |-> TRUE, message |-> "IPC channel closed"],
    [isError |-> FALSE, message |-> ""] }

ResultData(r, shape) ==
  IF shape.hasData
  THEN [present |-> TRUE, coachNote |-> <<r.session, r.seq>>, tips |-> shape.tips]
  ELSE NoData

(***************************************************************************)
(* The hook: decisions and state updates                                   *)
(***************************************************************************)
InitialState ==
  [pitchData |-> NoData, isAnalyzing |-> FALSE, cycleCount |-> 0, error |-> Null,
   tipHistory |-> <<>>, pace |-> RZero, transcript |-> <<>>]

NoAudioTrackMessage == "No audio track available for analysis"

TotalSamples(chunks) == chunks * CHUNK_SAMPLES
AudioTooSmall_Never(total) == FALSE
AudioTooSmall(total) == total < MIN_AUDIO_SAMPLES
InflightCapReached_Busy(n) == n >= 1
InflightCapReached_Two(n) == n >= 2
InflightCapReached(n) == n >= MAX_INFLIGHT
NextSeq_Reuse(s) == IF s = 0 THEN 1 ELSE s
NextSeq(s) == s + 1
SessionStopped_Ignored(active) == FALSE
SessionStopped(active) == ~active
IsStale_Never(seq, last) == FALSE
IsStale_Strict(seq, last) == seq < last
IsStale(seq, last) == seq <= last
StillAnalyzing(n) == n > 0

\* setState((prev) => ({ ...prev, isAnalyzing: true, error: null }))
OnFire(prev) == [prev EXCEPT !.isAnalyzing = TRUE, !.error = Null]

OnFailure_Idle(prev, n, message) ==
  [prev EXCEPT !.isAnalyzing = FALSE, !.error = message]

OnFailure_Silent(prev, n, message) ==
  [prev EXCEPT !.isAnalyzing = StillAnalyzing(n)]

\* setState((prev) => ({ ...prev, isAnalyzing: inflight > 0, error }))
OnFailure(prev, n, message) ==
  [prev EXCEPT !.isAnalyzing = StillAnalyzing(n), !.error = message]

AppendTips_Replace(history, tips) == tips
AppendTips(history, tips) == history \o tips

\* setState of an accepted result
OnDisplay(prev, n, data, tips, transcript) ==
  [prev EXCEPT !.pitchData = [data EXCEPT !.tips = tips],
               !.isAnalyzing = StillAnalyzing(n),
               !.cycleCount = @ + 1,
               !.error = Null,
               !.tipHistory = AppendTips(@, tips),
               !.transcript = IF transcript # <<>> THEN transcript ELSE @]

RejectionMessage(err) ==
  IF err.isError THEN err.message ELSE "Analysis cycle failed"

\* Words of the transcript not yet fed to the PaceTracker
NewWords(transcript, prevCount) == countWords(transcript) - prevCount
FeedsWords(transcript, prevCount) ==
  transcript # <<>> /\ NewWords(transcript, prevCount) > 0

\* What arrived: the kind of a response, and whether the session was active
ShapeKind(result) ==
  IF result.error # Null THEN "error" ELSE IF result.hasData THEN "data" ELSE "nodata"

NoArrival == [kind |-> "none", active |-> FALSE, stale |-> FALSE, own |-> FALSE]

\* History of the responses handled in this session: what arrived (kind),
\* whether the session was active, whether a response with the same or a
\* larger seq was on display, and whether this session dispatched the request
Arrived(r, kind) ==
  /\ arrival' = [kind |-> kind, active |-> activeRef,
                 stale |-> (r.seq <= lastDisplayedSeqRef),
                 own |-> (r.session = session)]
  /\ maxDataSeq' = IF activeRef /\ kind = "data" /\ r.seq > maxDataSeq
                   THEN r.seq ELSE maxDataSeq
  /\ failureSeen' = (failureSeen \/ (activeRef /\ r.session = session
                                        /\ kind \in {"error", "reject"}))
  /\ foreignArrivals' = IF activeRef /\ r.session # session
                        THEN foreignArrivals + 1 ELSE foreignArrivals

\* this.ws = null, this.connectPromise = null; this.pending = null
NoSocket == 0
NoCall == 0

\* The RealtimeService after its constructor.  pendingTranscript and
\* currentArgs name the response.create whose transcription and function-call
\* arguments they hold; transcript lists the segments appended so far.
NewRealtimeService ==
  [ws |-> NoSocket, connectPromise |-> NoSocket, callCount |-> 0,
   transcript |-> <<>>, pendingTranscript |-> NoCall, pending |-> NoCall,
   currentArgs |-> NoCall]

Init ==
  /\ state = InitialState
  /\ paceTracker = NewPaceTracker
  /\ prevWordCountRef = 0
  /\ recentTipTexts = <<>>
  /\ pcmChunksRef = 0
  /\ intervalRef = FALSE
  /\ paceIntervalRef = FALSE
  /\ activeRef = FALSE
  /\ seqRef = 0
  /\ lastDisplayedSeqRef = 0
  /\ inflightRef = 0
  /\ leakedTimers = FALSE
  /\ pending = {}
  /\ now = ClockStart
  /\ session = 0
  /\ dispatched = <<>>
  /\ paceTicks = 0
  /\ fired = 0
  /\ arrival = NoArrival
  /\ maxDataSeq = 0
  /\ failureSeen = FALSE
  /\ foreignArrivals = 0
  /\ lastOp = "mount"
  /\ audioSession = FALSE
  /\ paceRet = RZero
  /\ tipIn = <<>>
  /\ tipOut = <<>>
  /\ acceptedLog = <<>>
  /\ tailIn = <<>>
  /\ tailOut = <<>>
  /\ currentSlotRef = "A"
  /\ recorders = [slot \in {"A", "B"} |-> [phase |-> "none", frames |-> {}]]
  /\ stoppingRecorders = {}
  /\ frameNo = 0
  /\ segments = <<>>
  /\ missed = {}
  /\ cycles = 0
  /\ transcriptRef = <<>>
  /\ realtimeService = NewRealtimeService
  /\ wire = [sockets |-> <<>>, calls |-> <<>>]
  /\ sent = {}

\* startAnalysis(stream); hasAudio iff stream.getAudioTracks() is not empty
Start(hasAudio) ==
  /\ lastOp' = "start"
  /\ audioSession' = hasAudio
  /\ paceRet' = RZero
  /\ UNCHANGED offHook
  /\ session < MaxSessions
  /\ activeRef' = TRUE
  /\ pcmChunksRef' = 0
  /\ seqRef' = 0
  /\ lastDisplayedSeqRef' = 0
  /\ inflightRef' = 0
  /\ prevWordCountRef' = 0
  /\ paceTracker' = resetTracker(paceTracker)
  /\ recentTipTexts' = <<>>
  /\ IF hasAudio
     THEN /\ state' = InitialState
          /\ leakedTimers' = (leakedTimers \/ intervalRef \/ paceIntervalRef)
          /\ intervalRef' = TRUE
          /\ paceIntervalRef' = TRUE
     ELSE /\ state' = [InitialState EXCEPT !.error = NoAudioTrackMessage]
          /\ UNCHANGED <<leakedTimers, intervalRef, paceIntervalRef>>
  /\ session' = session + 1
  /\ dispatched' = <<>>
  /\ paceTicks' = 0
  /\ arrival' = NoArrival
  /\ maxDataSeq' = 0
  /\ failureSeen' = FALSE
  /\ foreignArrivals' = 0
  /\ UNCHANGED <<pending, now, fired>>

\* stopAnalysis()
Stop ==
  /\ lastOp' = "stop"
  /\ UNCHANGED <<audioSession, paceRet>>
  /\ UNCHANGED offHook
  /\ activeRef' = FALSE
  /\ intervalRef' = FALSE
  /\ paceIntervalRef' = FALSE
  /\ pcmChunksRef' = 0
  /\ pending' = {[r EXCEPT !.stopped = TRUE] : r \in pending}
  /\ UNCHANGED arrival
  /\ UNCHANGED <<state, paceTracker, prevWordCountRef, recentTipTexts, seqRef,
                 lastDisplayedSeqRef, inflightRef, leakedTimers, now, session,
                 dispatched, paceTicks, fired, maxDataSeq, failureSeen, foreignArrivals>>

\* processor.onaudioprocess: one more chunk of CHUNK_SAMPLES samples
Capture ==
  /\ lastOp' = "capture"
  /\ UNCHANGED <<audioSession, paceRet>>
  /\ UNCHANGED offHook
  /\ intervalRef \/ leakedTimers
  /\ activeRef
  /\ pcmChunksRef < MaxChunks
  /\ pcmChunksRef' = pcmChunksRef + 1
  /\ UNCHANGED arrival
  /\ UNCHANGED <<state, paceTracker, prevWordCountRef, recentTipTexts,
                 intervalRef, paceIntervalRef, activeRef, seqRef,
                 lastDisplayedSeqRef, inflightRef, leakedTimers, pending, now,
                 session, dispatched, paceTicks, fired, maxDataSeq, failureSeen, foreignArrivals>>

\* harvestAndFire, skipping: the buffer is taken and nothing is dispatched
HarvestSkip ==
  /\ lastOp' = "skip"
  /\ UNCHANGED <<audioSession, paceRet>>
  /\ UNCHANGED offHook
  /\ intervalRef \/ leakedTimers
  /\ activeRef
  /\ \/ AudioTooSmall(TotalSamples(pcmChunksRef))
     \/ InflightCapReached(inflightRef)
  /\ pcmChunksRef' = 0
  /\ UNCHANGED arrival
  /\ UNCHANGED <<state, paceTracker, prevWordCountRef, recentTipTexts,
                 intervalRef, paceIntervalRef, activeRef, seqRef,
                 lastDisplayedSeqRef, inflightRef, leakedTimers, pending, now,
                 session, dispatched, paceTicks, fired, maxDataSeq, failureSeen, foreignArrivals>>

\* harvestAndFire, dispatching one request
HarvestFire(limit) ==
  /\ lastOp' = "fire"
  /\ UNCHANGED <<audioSession, paceRet>>
  /\ UNCHANGED offHook
  /\ intervalRef \/ leakedTimers
  /\ activeRef
  /\ ~AudioTooSmall(TotalSamples(pcmChunksRef))
  /\ ~InflightCapReached(inflightRef)
  /\ fired < limit
  /\ fired' = fired + 1
  /\ pcmChunksRef' = 0
  /\ seqRef' = NextSeq(seqRef)
  /\ inflightRef' = inflightRef + 1
  /\ state' = OnFire(state)
  /\ pending' = pending \cup {[session |-> session, seq |-> seqRef', stopped |-> FALSE]}
  /\ dispatched' = Append(dispatched, seqRef')
  /\ UNCHANGED arrival
  /\ UNCHANGED <<paceTracker, prevWordCountRef, recentTipTexts, intervalRef,
                 paceIntervalRef, activeRef, lastDisplayedSeqRef, leakedTimers,
                 now, session, paceTicks, maxDataSeq, failureSeen,
                 foreignArrivals>>

\* .then((result) => ...) of request r, the service resolving with `name`
Resolve(r, name) ==
  LET result == ResultShapes[name]
      n == inflightRef - 1
      data == ResultData(r, result)
      feeds == FeedsWords(result.transcript, prevWordCountRef)
      san == sanitizeTips(data.tips, recentTipTexts)
  IN
  /\ lastOp' = "resolve"
  /\ UNCHANGED <<audioSession, paceRet>>
  /\ UNCHANGED offHook
  /\ r \in pending
  /\ pending' = pending \ {r}
  /\ inflightRef' = n
  /\ Arrived(r, ShapeKind(result))
  /\ IF SessionStopped(activeRef)
     THEN UNCHANGED <<state, paceTracker, prevWordCountRef, recentTipTexts,
                      lastDisplayedSeqRef>>
     ELSE IF result.error # Null
     THEN /\ state' = OnFailure(state, n, result.error)
          /\ UNCHANGED <<paceTracker, prevWordCountRef, recentTipTexts,
                         lastDisplayedSeqRef>>
     ELSE IF IsStale(r.seq, lastDisplayedSeqRef)
     THEN UNCHANGED <<state, paceTracker, prevWordCountRef, recentTipTexts,
                      lastDisplayedSeqRef>>
     ELSE /\ IF feeds
             THEN /\ paceTracker' = addWords(paceTracker,
                                      NewWords(result.transcript, prevWordCountRef), now)
                  /\ prevWordCountRef' = countWords(result.transcript)
             ELSE UNCHANGED <<paceTracker, prevWordCountRef>>
          /\ IF data.present
             THEN /\ lastDisplayedSeqRef' = r.seq
                  /\ recentTipTexts' = san.recent
                  /\ state' = OnDisplay(state, n, data, san.cleaned, result.transcript)
             ELSE UNCHANGED <<state, recentTipTexts, lastDisplayedSeqRef>>
  /\ UNCHANGED <<pcmChunksRef, intervalRef, paceIntervalRef, activeRef, seqRef,
                 leakedTimers, now, session, dispatched, paceTicks, fired>>

\* .catch((err) => ...) of request r
Reject(r, err) ==
  LET n == inflightRef - 1 IN
  /\ lastOp' = "reject"
  /\ UNCHANGED <<audioSession, paceRet>>
  /\ UNCHANGED offHook
  /\ r \in pending
  /\ pending' = pending \ {r}
  /\ inflightRef' = n
  /\ Arrived(r, "reject")
  /\ IF SessionStopped(activeRef)
     THEN UNCHANGED state
     ELSE state' = OnFailure(state, n, RejectionMessage(err))
  /\ UNCHANGED <<paceTracker, prevWordCountRef, recentTipTexts, pcmChunksRef,
                 intervalRef, paceIntervalRef, activeRef, seqRef,
                 lastDisplayedSeqRef, leakedTimers, now, session, dispatched,
                 paceTicks, fired>>

\* The pace interval callback
PaceTick ==
  /\ lastOp' = "pace"
  /\ UNCHANGED audioSession
  /\ UNCHANGED offHook
  /\ paceIntervalRef \/ leakedTimers
  /\ activeRef
  /\ paceTicks < MaxPaceTicks
  /\ LET u == update(paceTracker, now)
     IN /\ paceTracker' = u.tracker
        /\ paceRet' = u.ret
        /\ state' = [state EXCEPT !.pace = RoundHundredths(u.ret)]
  /\ paceTicks' = paceTicks + 1
  /\ UNCHANGED arrival
  /\ UNCHANGED <<prevWordCountRef, recentTipTexts, pcmChunksRef, intervalRef,
                 paceIntervalRef, activeRef, seqRef, lastDisplayedSeqRef,
                 inflightRef, leakedTimers, pending, now, session, dispatched, fired,
                 maxDataSeq, failureSeen, foreignArrivals>>

\* Time passes
Advance ==
  /\ lastOp' = "advance"
  /\ UNCHANGED <<audioSession, paceRet>>
  /\ UNCHANGED offHook
  /\ now < ClockStart + MaxClock * ClockStep
  /\ now' = now + ClockStep
  /\ UNCHANGED arrival
  /\ UNCHANGED <<state, paceTracker, prevWordCountRef, recentTipTexts,
                 pcmChunksRef, intervalRef, paceIntervalRef, activeRef, seqRef,
                 lastDisplayedSeqRef, inflightRef, leakedTimers, pending,
                 session, dispatched, paceTicks, fired, maxDataSeq, failureSeen, foreignArrivals>>

Next ==
  \/ \E hasAudio \in BOOLEAN : Start(hasAudio)
  \/ Stop
  \/ Capture
  \/ HarvestSkip
  \/ HarvestFire(MaxRequests)
  \/ \E r \in pending, name \in ShapeNames : Resolve(r, name)
  \/ \E r \in pending, err \in Rejections : Reject(r, err)
  \/ PaceTick
  \/ Advance

Spec == Init /\ [][Next]_vars

\* The dispatch bookkeeping alone (no clock, no pace timer), with one more
\* request than Spec allows
NextDispatch ==
  \/ \E hasAudio \in BOOLEAN : Start(hasAudio)
  \/ Stop
  \/ Capture
  \/ HarvestSkip
  \/ HarvestFire(MaxBurst)
  \/ \E r \in pending, name \in ShapeNames : Resolve(r, name)
  \/ \E r \in pending, err \in Rejections : Reject(r, err)

SpecDispatch == Init /\ [][NextDispatch]_vars

(***************************************************************************)
(* The PaceTracker on its own: any calls of addWords and update            *)
(***************************************************************************)
WordCounts == {0, 5, 30}
UpdatePeriods == {900, 1000}
Timestamps(clock) == {0, clock}

\* What the PaceTracker does not touch
PaceFrame ==
  UNCHANGED <<prevWordCountRef, recentTipTexts, pcmChunksRef, intervalRef,
              paceIntervalRef, activeRef, seqRef, lastDisplayedSeqRef,
              inflightRef, leakedTimers, pending, session, dispatched, fired,
              arrival, maxDataSeq, failureSeen, foreignArrivals, lastOp,
              audioSession, tipIn, tipOut, acceptedLog, tailIn, tailOut,
              currentSlotRef, recorders, stoppingRecorders, frameNo, segments,
              missed, cycles, transcriptRef,
              realtimeService, wire, sent>>

\* paceTracker.addWords(count, timestamp)
PtAddWords(count, timestamp) ==
  /\ Len(paceTracker.wordTimestamps) + count <= MaxWords
  /\ paceTracker' = addWords(paceTracker, count, timestamp)
  /\ UNCHANGED <<state, now, paceTicks, paceRet>>
  /\ PaceFrame

\* const raw = paceTracker.update(now), published as in the pace callback
PtUpdate ==
  /\ paceTicks < MaxUpdates
  /\ LET u == update(paceTracker, now)
     IN /\ paceTracker' = u.tracker
        /\ paceRet' = u.ret
        /\ state' = [state EXCEPT !.pace = RoundHundredths(u.ret)]
  /\ paceTicks' = paceTicks + 1
  /\ UNCHANGED now
  /\ PaceFrame

PtAdvance(dt) ==
  /\ now + dt <= MaxPaceClock
  /\ now' = now + dt
  /\ UNCHANGED <<state, paceTracker, paceTicks, paceRet>>
  /\ PaceFrame

NextPace ==
  \/ \E count \in WordCounts, timestamp \in Timestamps(now) :
       PtAddWords(count, timestamp)
  \/ PtUpdate
  \/ \E dt \in UpdatePeriods : PtAdvance(dt)

SpecPace == Init /\ [][NextPace]_vars

(***************************************************************************)
(* sanitizeTips on its own: any calls, against the window they leave       *)
(***************************************************************************)
TxtConsider == <<"Y","o","u"," ","s","h","o","u","l","d"," ","c","o","n","s","i","d","e","r"," ","p","a","u","s","i","n","g">>
TxtBreathe == <<"B","r","e","a","t","h","e">>
TxtSmile == <<"S","m","i","l","e">>
TxtLookUp == <<"L","o","o","k"," ","u","p">>
TxtBeBrief == <<"B","e"," ","b","r","i","e","f">>
TxtUseData == <<"U","s","e"," ","d","a","t","a">>
TxtStandTall == <<"S","t","a","n","d"," ","t","a","l","l">>

TxtConsiderOnly == <<" ","C","o","n","s","i","d","e","r"," "," ">>

\* Fifteen words; the prefix gone, the twelfth is a conjunction
TxtLong ==
  JoinWords(<< <<"t","r","y">>, <<"t","o">>, <<"k","e","e","p">>, <<"i","t">>,
               <<"u","p">>, <<"s","o">>, <<"w","e">>, <<"d","o">>, <<"a","s">>,
               <<"h","e">>, <<"g","o">>, <<"b","y">>, <<"m","e">>, <<"o","r">>,
               <<"u","s">> >>)

TxtDots == <<".", ".", ".">>

Tip(id, text) == [id |-> id, text |-> text]

\* Lists of CoachingTip the service may return
TipBatches ==
  { <<Tip("t1", TxtPause)>>,
    <<Tip("t2", TxtSlow)>>,
    <<Tip("t3", TxtPauseMore)>>,
    <<Tip("t4", TxtConsider)>>,
    <<Tip("t2", TxtSlow), Tip("t3", TxtPauseMore)>>,
    <<Tip("t1", TxtPause), Tip("t3", TxtPauseMore)>>,
    <<Tip("t13", TxtDots)>>,
    <<Tip("t11", TxtConsiderOnly), Tip("t12", TxtLong), Tip("t2", TxtSlow)>>,
    <<Tip("t5", TxtBreathe), Tip("t6", TxtSmile), Tip("t7", TxtLookUp),
      Tip("t8", TxtBeBrief), Tip("t9", TxtUseData), Tip("t10", TxtStandTall)>> }

Texts(tips) == [i \in 1..Len(tips) |-> tips[i].text]

\* What sanitizeTips does not touch
TipsFrame ==
  UNCHANGED <<state, paceTracker, prevWordCountRef, pcmChunksRef, intervalRef,
              paceIntervalRef, activeRef, seqRef, lastDisplayedSeqRef,
              inflightRef, leakedTimers, pending, now, session, dispatched,
              paceTicks, fired, arrival, maxDataSeq, failureSeen,
              foreignArrivals, lastOp, audioSession, paceRet, tailIn, tailOut,
              currentSlotRef, recorders, stoppingRecorders, frameNo, segments,
              missed, cycles, transcriptRef,
              realtimeService, wire, sent>>

\* const sanitizedTips = sanitizeTips(tips)
SanitizeCall(tips) ==
  /\ Len(acceptedLog) <= MaxAccepted
  /\ LET san == sanitizeTips(tips, recentTipTexts)
     IN /\ recentTipTexts' = san.recent
        /\ tipIn' = tips
        /\ tipOut' = san.cleaned
        /\ acceptedLog' = acceptedLog \o Texts(san.cleaned)
  /\ TipsFrame

\* recentTipTexts = [], as startAnalysis does
TipsReset ==
  /\ recentTipTexts' = <<>>
  /\ tipIn' = <<>>
  /\ tipOut' = <<>>
  /\ acceptedLog' = <<>>
  /\ TipsFrame

NextTips ==
  \/ \E tips \in TipBatches : SanitizeCall(tips)
  \/ TipsReset

SpecTips == Init /\ [][NextTips]_vars

(***************************************************************************)
(* dedalusService: tailTranscript                                          *)
(***************************************************************************)
\* transcript.indexOf(c, from): the 0-based index of the first c at or after
\* index from, or -1
IndexOf_First(t, c, from) ==
  LET S == {i \in 0..(Len(t) - 1) : t[i + 1] = c}
  IN IF S = {} THEN -1 ELSE CHOOSE i \in S : \A j \in S : i <= j

IndexOf(t, c, from) ==
  LET S == {i \in (IF from < 0 THEN 0 ELSE from)..(Len(t) - 1) : t[i + 1] = c}
  IN IF S = {} THEN -1 ELSE CHOOSE i \in S : \A j \in S : i <= j

\* transcript.slice(begin) for 0 <= begin, and transcript.slice(-n)
SliceFrom(t, begin) == SubSeq(t, begin + 1, Len(t))
SliceLast(t, n) == IF n >= Len(t) THEN t ELSE SubSeq(t, Len(t) - n + 1, Len(t))

tailTranscript(transcript) ==
  IF Len(transcript) <= MAX_TRANSCRIPT_CHARS THEN transcript
  ELSE LET start == IndexOf(transcript, " ", Len(transcript) - MAX_TRANSCRIPT_CHARS)
       IN IF start > 0 THEN SliceFrom(transcript, start + 1)
          ELSE SliceLast(transcript, MAX_TRANSCRIPT_CHARS)

\* Transcripts around the budget: letters, with spaces at some of a few
\* places near both ends and in the middle
TailLengths == (MAX_TRANSCRIPT_CHARS - 1)..(MAX_TRANSCRIPT_CHARS + MaxExcess)
SpacePlaces(n) == {1, 2, 3, n \div 2, n - 1, n}
TailInput(n, spaces) == [i \in 1..n |-> IF i \in spaces THEN " " ELSE "a"]

\* Everything but the argument and the result of the call
TailFrame ==
  UNCHANGED <<state, paceTracker, prevWordCountRef, recentTipTexts,
              pcmChunksRef, intervalRef, paceIntervalRef, activeRef, seqRef,
              lastDisplayedSeqRef, inflightRef, leakedTimers, pending, now,
              session, dispatched, paceTicks, fired, arrival, maxDataSeq,
              failureSeen, foreignArrivals, lastOp, audioSession, paceRet,
              tipIn, tipOut, acceptedLog, currentSlotRef, recorders,
              stoppingRecorders, frameNo, segments, missed, cycles, transcriptRef,
              realtimeService, wire, sent>>

\* tailTranscript(priorTranscript) in analyze
TailCall(t) ==
  /\ tailIn' = t
  /\ tailOut' = tailTranscript(t)
  /\ TailFrame

NextTail ==
  \E n \in TailLengths : \E spaces \in SUBSET SpacePlaces(n) :
    TailCall(TailInput(n, spaces))

SpecTail == Init /\ [][NextTail]_vars

(***************************************************************************)
(* The double-buffered hook (hooks/useRealtimeAnalysis.ts): two            *)
(* MediaRecorders in slots A and B, alternating at every cycle             *)
(***************************************************************************)
Slots == {"A", "B"}
OtherSlot(slot) == IF slot = "A" THEN "B" ELSE "A"

\* recorder.state is 'recording' from start() on; the user agent begins to
\* gather data some time after start() and gathers until the task that
\* stop() queued has run; a recorder stopped before it began to gather
\* delivers an empty blob
NewRecorder == [phase |-> "starting", frames |-> {}]
Inactive(rec) == rec.phase \in {"none", "inactive"}
Gathering(rec) == rec.phase = "recording"

\* recorder.stop() on the recorders of `slots` that are not inactive;
\* collect iff stopAndCollect installed onstop for that recorder
StopRecorders(slots, collect) ==
  { [slot |-> sl, frames |-> recorders[sl].frames, collect |-> collect,
     gathering |-> Gathering(recorders[sl]), since |-> cycles]
      : sl \in {x \in slots : ~Inactive(recorders[x])} }

\* What the double-buffered capture does not touch
SegmenterFrame ==
  UNCHANGED <<paceTracker, prevWordCountRef, recentTipTexts, pcmChunksRef,
              paceIntervalRef, leakedTimers, now, dispatched, paceTicks,
              arrival, maxDataSeq, failureSeen, foreignArrivals, lastOp,
              audioSession, paceRet, tipIn, tipOut, acceptedLog, tailIn,
              tailOut, realtimeService, wire, sent>>

\* The pipelining refs and the React state of the double-buffered hook
DbPipeline ==
  <<state, seqRef, lastDisplayedSeqRef, inflightRef, pending, fired,
    transcriptRef>>

\* audioBlob.size of the blob a recorder resolves with
BlobSize(frames) == Cardinality(frames) * FrameBytes
BlobTooSmall(size) == size < MIN_AUDIO_BYTES

\* startAnalysis(stream), the stream having an audio track
DbStart ==
  /\ session < MaxSessions
  /\ session' = session + 1
  /\ stoppingRecorders' = stoppingRecorders \cup StopRecorders(Slots, FALSE)
  /\ activeRef' = TRUE
  /\ currentSlotRef' = "A"
  /\ transcriptRef' = <<>>
  /\ seqRef' = 0
  /\ lastDisplayedSeqRef' = 0
  /\ inflightRef' = 0
  /\ state' = InitialState
  /\ recorders' = [slot \in Slots |->
                     IF slot = "A" THEN NewRecorder
                     ELSE IF recorders[slot].phase = "none" THEN recorders[slot]
                     ELSE [phase |-> "inactive", frames |-> {}]]
  /\ intervalRef' = TRUE
  /\ UNCHANGED <<pending, fired, frameNo, segments, missed, cycles>>
  /\ SegmenterFrame

\* The user agent begins to gather data for the recorder started in slot
DbBegin(slot) ==
  /\ recorders[slot].phase = "starting"
  /\ recorders' = [recorders EXCEPT ![slot].phase = "recording"]
  /\ UNCHANGED <<activeRef, intervalRef, currentSlotRef, stoppingRecorders,
                 frameNo, segments, missed, cycles, session>>
  /\ UNCHANGED DbPipeline
  /\ SegmenterFrame

\* The track delivers one audio frame while the session is active
DbFrame(limit) ==
  /\ activeRef
  /\ frameNo < limit
  /\ frameNo' = frameNo + 1
  /\ recorders' = [slot \in Slots |->
                     IF Gathering(recorders[slot])
                     THEN [recorders[slot] EXCEPT !.frames = @ \cup {frameNo'}]
                     ELSE recorders[slot]]
  /\ stoppingRecorders' =
       {IF rec.gathering THEN [rec EXCEPT !.frames = @ \cup {frameNo'}] ELSE rec
          : rec \in stoppingRecorders}
  /\ missed' = IF /\ cycles >= 1
                  /\ \A rec \in stoppingRecorders : ~rec.gathering
                  /\ \A slot \in Slots : ~Gathering(recorders[slot])
               THEN missed \cup {frameNo'} ELSE missed
  /\ UNCHANGED <<activeRef, intervalRef, currentSlotRef, segments, cycles,
                 session>>
  /\ UNCHANGED DbPipeline
  /\ SegmenterFrame

\* harvestAndFire up to its await: start the other recorder, then stop the
\* current one.  A harvest slot without a live recorder resolves at once
\* with an empty blob, which is below MIN_AUDIO_BYTES: the cycle skips.
DbCycle(limit) ==
  /\ intervalRef
  /\ activeRef
  /\ cycles < limit
  /\ LET harvestSlot == currentSlotRef
         nextSlot == OtherSlot(harvestSlot)
     IN /\ currentSlotRef' = nextSlot
        /\ recorders' = [recorders EXCEPT
                           ![nextSlot] = NewRecorder,
                           ![harvestSlot] = [phase |-> "inactive", frames |-> {}]]
        /\ stoppingRecorders' =
             stoppingRecorders \cup StopRecorders({harvestSlot}, TRUE)
        /\ segments' = IF Inactive(recorders[harvestSlot])
                       THEN Append(segments, {}) ELSE segments
  /\ cycles' = cycles + 1
  /\ UNCHANGED <<activeRef, intervalRef, frameNo, missed, session>>
  /\ UNCHANGED DbPipeline
  /\ SegmenterFrame

\* The task queued by recorder.stop(): gathering ends, dataavailable and
\* stop fire.  With onstop installed by stopAndCollect the promise resolves
\* and harvestAndFire continues after its await: size and cap checks, then
\* the dispatch of one request.
DbStopped(rec) ==
  /\ rec \in stoppingRecorders
  /\ stoppingRecorders' = stoppingRecorders \ {rec}
  /\ segments' = IF rec.collect THEN Append(segments, rec.frames) ELSE segments
  /\ IF /\ rec.collect
        /\ ~BlobTooSmall(BlobSize(rec.frames))
        /\ ~InflightCapReached(inflightRef)
     THEN /\ seqRef' = NextSeq(seqRef)
          /\ inflightRef' = inflightRef + 1
          /\ state' = OnFire(state)
          /\ fired' = fired + 1
          /\ pending' = pending \cup
               {[session |-> session, seq |-> seqRef', stopped |-> ~activeRef]}
     ELSE UNCHANGED <<seqRef, inflightRef, state, fired, pending>>
  /\ UNCHANGED <<lastDisplayedSeqRef, transcriptRef>>
  /\ UNCHANGED <<activeRef, intervalRef, currentSlotRef, recorders, frameNo,
                 missed, cycles, session>>
  /\ SegmenterFrame

\* .then((result) => ...) of request r in the double-buffered hook
DbThen(r, result) ==
  LET n == inflightRef - 1
      data == ResultData(r, result)
      heard == IF result.transcript # <<>> THEN result.transcript
               ELSE transcriptRef
  IN
  /\ r \in pending
  /\ pending' = pending \ {r}
  /\ inflightRef' = n
  /\ IF SessionStopped(activeRef)
     THEN UNCHANGED <<state, transcriptRef, lastDisplayedSeqRef>>
     ELSE IF result.error # Null
     THEN /\ state' = OnFailure(state, n, result.error)
          /\ UNCHANGED <<transcriptRef, lastDisplayedSeqRef>>
     ELSE /\ transcriptRef' = heard
          /\ IF IsStale(r.seq, lastDisplayedSeqRef)
             THEN UNCHANGED <<state, lastDisplayedSeqRef>>
             ELSE IF data.present
             THEN /\ lastDisplayedSeqRef' = r.seq
                  /\ state' = OnDisplay(state, n, data, data.tips, <<>>)
             ELSE /\ state' = IF Len(heard) < MIN_TRANSCRIPT_LENGTH
                              THEN [state EXCEPT !.isAnalyzing = StillAnalyzing(n)]
                              ELSE state
                  /\ UNCHANGED lastDisplayedSeqRef
  /\ UNCHANGED <<seqRef, fired>>
  /\ UNCHANGED <<activeRef, intervalRef, currentSlotRef, recorders,
                 stoppingRecorders, frameNo, segments, missed, cycles, session>>

\* The service resolves with one of the AnalyzeAudioResponse values
DbResolve(r, name) ==
  /\ DbThen(r, ResultShapes[name])
  /\ SegmenterFrame

\* .catch((err) => ...) of request r in the double-buffered hook
DbReject(r, err) ==
  LET n == inflightRef - 1 IN
  /\ r \in pending
  /\ pending' = pending \ {r}
  /\ inflightRef' = n
  /\ IF SessionStopped(activeRef)
     THEN UNCHANGED state
     ELSE state' = OnFailure(state, n, RejectionMessage(err))
  /\ UNCHANGED <<seqRef, fired, transcriptRef, lastDisplayedSeqRef>>
  /\ UNCHANGED <<activeRef, intervalRef, currentSlotRef, recorders,
                 stoppingRecorders, frameNo, segments, missed, cycles, session>>
  /\ SegmenterFrame

\* stopAnalysis()
DbStop ==
  /\ activeRef' = FALSE
  /\ intervalRef' = FALSE
  /\ stoppingRecorders' = stoppingRecorders \cup StopRecorders(Slots, FALSE)
  /\ recorders' = [slot \in Slots |-> [phase |-> "none", frames |-> {}]]
  /\ pending' = {[r EXCEPT !.stopped = TRUE] : r \in pending}
  /\ UNCHANGED <<state, seqRef, lastDisplayedSeqRef, inflightRef, fired,
                 transcriptRef>>
  /\ UNCHANGED <<currentSlotRef, frameNo, segments, missed, cycles, session>>
  /\ SegmenterFrame

\* Capture and dispatch: the requests stay outstanding
NextSegmenter ==
  \/ DbStart
  \/ \E slot \in Slots : DbBegin(slot)
  \/ DbFrame(MaxFrames)
  \/ DbCycle(MaxCycles)
  \/ \E rec \in stoppingRecorders : DbStopped(rec)
  \/ DbStop

SpecSegmenter == Init /\ [][NextSegmenter]_vars

\* Capture, dispatch and the responses, over fewer frames and cycles
NextContext ==
  \/ DbStart
  \/ \E slot \in Slots : DbBegin(slot)
  \/ DbFrame(MaxContextFrames)
  \/ DbCycle(MaxContextCycles)
  \/ \E rec \in stoppingRecorders : DbStopped(rec)
  \/ \E r \in pending, name \in ShapeNames : DbResolve(r, name)
  \/ \E r \in pending, err \in Rejections : DbReject(r, err)
  \/ DbStop

SpecContext == Init /\ [][NextContext]_vars

(***************************************************************************)
(* The transcript as context: each request is sent with the transcript the *)
(* hook holds when its audio is encoded, and the service answers with that *)
(* transcript followed by the text of the new segment.                     *)
(***************************************************************************)
TranscriptFrame ==
  UNCHANGED <<paceTracker, prevWordCountRef, recentTipTexts, pcmChunksRef,
              paceIntervalRef, leakedTimers, now, dispatched, paceTicks,
              arrival, maxDataSeq, failureSeen, foreignArrivals, lastOp,
              audioSession, paceRet, tipIn, tipOut, acceptedLog, tailIn,
              tailOut, realtimeService, wire>>

\* What the model transcribes from the audio of request seq
SegmentText(seq) == <<<<"a", "b", "c">>[seq]>>

\* const fullTranscript = priorTranscript ? priorTranscript + ' ' + ... : ...
FullTranscript(priorTranscript, transcript) ==
  IF priorTranscript # <<>> THEN priorTranscript \o <<" ">> \o transcript
  ELSE transcript

SentOf(r) == {m \in sent : m.session = r.session /\ m.seq = r.seq}

\* .then((base64Audio) => window.pitchly.analyzeAudio(base64Audio,
\* transcriptRef.current)): the audio of request r is encoded and the call
\* is made with the transcript of this moment
DbSend(r) ==
  /\ r \in pending
  /\ SentOf(r) = {}
  /\ sent' = sent \cup {[session |-> r.session, seq |-> r.seq,
                         priorTranscript |-> transcriptRef, applied |-> FALSE]}
  /\ UNCHANGED <<state, seqRef, lastDisplayedSeqRef, inflightRef, pending,
                 fired, transcriptRef>>
  /\ UNCHANGED <<activeRef, intervalRef, currentSlotRef, recorders,
                 stoppingRecorders, frameNo, segments, missed, cycles, session>>
  /\ TranscriptFrame

\* DedalusService.analyzeAudio answers the call made for request r, and the
\* hook's .then handler runs.  applied records that the handler stored the
\* transcript of the response.
DbAnswer(r, name) ==
  LET m == CHOOSE m \in SentOf(r) : TRUE
      result == IF ResultShapes[name].error # Null THEN ResultShapes[name]
                ELSE [ResultShapes[name] EXCEPT
                        !.transcript = FullTranscript(m.priorTranscript,
                                                      SegmentText(r.seq))]
  IN
  /\ r \in pending
  /\ SentOf(r) # {}
  /\ DbThen(r, result)
  /\ sent' = IF ~SessionStopped(activeRef) /\ result.error = Null
             THEN (sent \ {m}) \cup {[m EXCEPT !.applied = TRUE]}
             ELSE sent
  /\ TranscriptFrame

NextTranscript ==
  \/ DbStart
  \/ \E slot \in Slots : DbBegin(slot)
  \/ DbFrame(MaxContextFrames)
  \/ DbCycle(MaxContextCycles)
  \/ \E rec \in stoppingRecorders : DbStopped(rec)
  \/ \E r \in pending : DbSend(r)
  \/ \E r \in pending, name \in {"failed", "first", "nodata"} : DbAnswer(r, name)
  \/ \E r \in pending, err \in Rejections : DbReject(r, err)
  \/ DbStop

SpecTranscript == Init /\ [][NextTranscript]_vars

(***************************************************************************)
(* Main process: RealtimeService (one object, one pending slot) and the    *)
(* WebSockets it opens.  A socket is [state, inbox]: inbox lists the       *)
(* response.create events the server has received and not yet answered.    *)
(* A call of analyzeAudio is [phase, socket, answer, transcript]: it is    *)
(* named by its position in wire.calls, as is the response.create it sends. *)
(***************************************************************************)
RealtimeFrame ==
  UNCHANGED <<state, paceTracker, prevWordCountRef, recentTipTexts,
              pcmChunksRef, intervalRef, paceIntervalRef, activeRef, seqRef,
              lastDisplayedSeqRef, inflightRef, leakedTimers, pending, now,
              session, dispatched, paceTicks, fired, arrival, maxDataSeq,
              failureSeen, foreignArrivals, lastOp, audioSession, paceRet,
              tipIn, tipOut, acceptedLog, tailIn, tailOut, currentSlotRef,
              recorders, stoppingRecorders, frameNo, segments, missed, cycles,
              transcriptRef, sent>>

\* this.ws?.readyState === WebSocket.OPEN
WsOpen(rs, w) == rs.ws # NoSocket /\ w.sockets[rs.ws].state = "open"

NewCall(phase, socket) ==
  [phase |-> phase, socket |-> socket, answer |-> NoCall, transcript |-> <<>>]

\* The calls suspended at `await this.ensureConnected()` on the connect
\* promise of socket s, in call order
RECURSIVE AwaitingFrom(_, _, _)
AwaitingFrom(calls, s, c) ==
  IF c > Len(calls) THEN <<>>
  ELSE IF calls[c].phase = "connecting" /\ calls[c].socket = s
       THEN <<c>> \o AwaitingFrom(calls, s, c + 1)
       ELSE AwaitingFrom(calls, s, c + 1)

Awaiting(w, s) == AwaitingFrom(w.calls, s, 1)

\* this.pending.reject(...) / resolve(...); this.pending = null
Settle(calls, c, phase, answer, transcript) ==
  IF c = NoCall THEN calls
  ELSE [calls EXCEPT ![c] = [@ EXCEPT !.phase = phase, !.answer = answer,
                                     !.transcript = transcript]]

\* analyzeAudio(pcm16Base64) up to its await, and through to the end when
\* the socket is open (the continuation runs before any other task)
RsAnalyzeAudio ==
  LET c == Len(wire.calls) + 1
      rs == [realtimeService EXCEPT !.callCount = @ + 1]
  IN
  /\ c <= MaxCalls
  /\ IF WsOpen(realtimeService, wire)
     THEN /\ realtimeService' = [rs EXCEPT !.pending = c]
          /\ wire' = [wire EXCEPT
                        !.calls = Append(@, NewCall("waiting", rs.ws)),
                        !.sockets[rs.ws].inbox = Append(@, c)]
     ELSE IF rs.connectPromise # NoSocket
     THEN /\ realtimeService' = rs
          /\ wire' = [wire EXCEPT !.calls = Append(@,
                        NewCall(IF wire.sockets[rs.connectPromise].state = "failed"
                                THEN "rejected" ELSE "connecting",
                                rs.connectPromise))]
     ELSE /\ Len(wire.sockets) < MaxSockets
          /\ realtimeService' = [rs EXCEPT !.connectPromise = Len(wire.sockets) + 1]
          /\ wire' = [wire EXCEPT
                        !.sockets = Append(@, [state |-> "connecting", inbox |-> <<>>]),
                        !.calls = Append(@, NewCall("connecting", Len(wire.sockets) + 1))]
  /\ RealtimeFrame

\* ws.on('open'): the connect promise resolves and every analyzeAudio
\* suspended on it sends its three events and takes the pending slot
RsOpen(s) ==
  LET resumed == Awaiting(wire, s) IN
  /\ s \in 1..Len(wire.sockets)
  /\ wire.sockets[s].state = "connecting"
  /\ realtimeService' =
       [realtimeService EXCEPT
          !.ws = s,
          !.pending = IF resumed = <<>> THEN @ ELSE resumed[Len(resumed)]]
  /\ wire' = [wire EXCEPT
                !.sockets[s] = [state |-> "open", inbox |-> resumed],
                !.calls = [c \in 1..Len(wire.calls) |->
                             IF wire.calls[c].phase = "connecting"
                                  /\ wire.calls[c].socket = s
                             THEN [wire.calls[c] EXCEPT !.phase = "waiting"]
                             ELSE wire.calls[c]]]
  /\ RealtimeFrame

\* ws.on('error') while connecting: the connect promise rejects, and so
\* does every analyzeAudio suspended on it
RsError(s) ==
  /\ s \in 1..Len(wire.sockets)
  /\ wire.sockets[s].state = "connecting"
  /\ wire' = [wire EXCEPT
                !.sockets[s].state = "failed",
                !.calls = [c \in 1..Len(wire.calls) |->
                             IF wire.calls[c].phase = "connecting"
                                  /\ wire.calls[c].socket = s
                             THEN [wire.calls[c] EXCEPT !.phase = "rejected"]
                             ELSE wire.calls[c]]]
  /\ UNCHANGED realtimeService
  /\ RealtimeFrame

\* The server answers the oldest response.create of an open socket: the
\* transcription and the function-call arguments, then response.done
\* (kind "done"), or an error event (kind "error")
RsHandleEvent(s, kind) ==
  LET k == Head(wire.sockets[s].inbox)
      rs == realtimeService
      heard == Append(rs.transcript, k)
  IN
  /\ s \in 1..Len(wire.sockets)
  /\ wire.sockets[s].state = "open"
  /\ wire.sockets[s].inbox # <<>>
  /\ IF kind = "done"
     THEN IF rs.pending = NoCall
          THEN /\ realtimeService' = [rs EXCEPT !.pendingTranscript = k,
                                               !.currentArgs = NoCall]
               /\ wire' = [wire EXCEPT !.sockets[s].inbox = Tail(@)]
          ELSE /\ realtimeService' = [rs EXCEPT !.transcript = heard,
                                               !.pending = NoCall,
                                               !.pendingTranscript = NoCall,
                                               !.currentArgs = NoCall]
               /\ wire' = [wire EXCEPT
                             !.sockets[s].inbox = Tail(@),
                             !.calls = Settle(@, rs.pending, "resolved", k, heard)]
     ELSE /\ realtimeService' = [rs EXCEPT !.pending = NoCall]
          /\ wire' = [wire EXCEPT
                        !.sockets[s].inbox = Tail(@),
                        !.calls = Settle(@, rs.pending, "rejected", NoCall, <<>>)]
  /\ RealtimeFrame

\* ws.on('close') of socket s: after disconnect() closed it, after a failed
\* connect, or because the connection was lost
RsClose(s) ==
  /\ s \in 1..Len(wire.sockets)
  /\ wire.sockets[s].state \in {"open", "closing", "failed"}
  /\ realtimeService' = [realtimeService EXCEPT !.ws = NoSocket,
                                                !.connectPromise = NoSocket,
                                                !.pending = NoCall]
  /\ wire' = [wire EXCEPT
                !.sockets[s] = [state |-> "closed", inbox |-> <<>>],
                !.calls = Settle(@, realtimeService.pending, "rejected", NoCall, <<>>)]
  /\ RealtimeFrame

\* disconnect()
RsDisconnect ==
  /\ realtimeService' = NewRealtimeService
  /\ wire' = [wire EXCEPT
                !.sockets = [s \in 1..Len(wire.sockets) |->
                               IF s = realtimeService.ws
                               THEN [wire.sockets[s] EXCEPT !.state = "closing"]
                               ELSE wire.sockets[s]],
                !.calls = Settle(@, realtimeService.pending, "rejected", NoCall, <<>>)]
  /\ RealtimeFrame

NextRealtime ==
  \/ RsAnalyzeAudio
  \/ \E s \in 1..MaxSockets : RsOpen(s)
  \/ \E s \in 1..MaxSockets : RsError(s)
  \/ \E s \in 1..MaxSockets, kind \in {"done", "error"} : RsHandleEvent(s, kind)
  \/ \E s \in 1..MaxSockets : RsClose(s)
  \/ RsDisconnect

SpecRealtime == Init /\ [][NextRealtime]_vars

\* The network and the server do their part: a connecting socket opens or
\* fails, every response.create on an open socket is answered, and a socket
\* that was closed delivers its close event
SpecRealtimeFair ==
  /\ SpecRealtime
  /\ \A s \in 1..MaxSockets :
       /\ WF_vars(RsOpen(s) \/ RsError(s))
       /\ WF_vars(\E kind \in {"done", "error"} : RsHandleEvent(s, kind))
       /\ WF_vars(/\ s \in 1..Len(wire.sockets)
                  /\ wire.sockets[s].state \in {"closing", "failed"}
                  /\ RsClose(s))

(***************************************************************************)
(* Properties                                                              *)
(***************************************************************************)
\* A step in which the response of one request is handled
ArrivalStep == pending' \subseteq pending /\ pending' # pending
ArrivedRequest == CHOOSE r \in pending : r \notin pending'

\* The seq of the response that produced a displayed pitchData (0: none)
SeqOf(data) == IF data.present THEN data.coachNote[2] ELSE 0

IsPrefix(a, b) == Len(a) <= Len(b) /\ SubSeq(b, 1, Len(a)) = a

FailureMessages ==
  {ResultShapes["failed"].error} \cup {RejectionMessage(e) : e \in Rejections}

OwnPending == {r \in pending : r.session = session}

\* C1: within one session lastDisplayedSeq never decreases, and pitchData is
\* replaced only by a response whose seq is strictly greater than the seq of
\* the response that produced the pitchData on display.
C1_MonotonicDisplay ==
  [][session' = session =>
       /\ lastDisplayedSeqRef' >= lastDisplayedSeqRef
       /\ (state'.pitchData # state.pitchData =>
             /\ state'.pitchData.present
             /\ SeqOf(state'.pitchData) > SeqOf(state.pitchData))]_vars

\* Two results were displayed in one session and a third, older one arrived
C1_Witness ==
  /\ activeRef
  /\ state.cycleCount = 2
  /\ arrival = [kind |-> "data", active |-> TRUE, stale |-> TRUE, own |-> TRUE]

\* C2: the number of requests dispatched and not yet resolved or rejected is
\* at most MAX_INFLIGHT in every reachable state.
C2_OutstandingBounded == Cardinality(pending) <= MAX_INFLIGHT

\* C3: between stop() and the next start(), no step -- in particular no
\* response arriving -- changes SessionState.
C3_StopFreezesState ==
  [][(~activeRef /\ ~activeRef') => state' = state]_vars

\* A response has arrived while the session was stopped
C3_Witness ==
  /\ ~activeRef
  /\ arrival.kind \in {"data", "error", "reject"}
  /\ ~arrival.active

\* C4: a response to a request dispatched before a stop() changes neither
\* SessionState, lastDisplayedSeq, the PaceTracker nor the tip window,
\* whenever it arrives after that stop().
C4_StoppedRequestDiscarded ==
  [][(ArrivalStep /\ ArrivedRequest.stopped) =>
       UNCHANGED <<state, lastDisplayedSeqRef, paceTracker, recentTipTexts>>]_vars

\* C5: pitchData is null while lastDisplayedSeq = 0 and otherwise is the data
\* of the response to this session's request lastDisplayedSeq, and
\* lastDisplayedSeq is the largest seq that arrived with data in the session.
C5_DisplayIsNewestOfSession ==
  /\ (lastDisplayedSeqRef = 0 => ~state.pitchData.present)
  /\ (lastDisplayedSeqRef > 0 =>
        /\ state.pitchData.present
        /\ state.pitchData.coachNote = <<session, lastDisplayedSeqRef>>)
  /\ lastDisplayedSeqRef = maxDataSeq

\* C6: the requests dispatched in a session carry the seqs 1, 2, 3, ... in
\* dispatch order, and the unsettled ones of the session are among them.
C6_SeqsCountUp ==
  /\ \A i \in 1..Len(dispatched) : dispatched[i] = i
  /\ seqRef = Len(dispatched)
  /\ \A r \in OwnPending : r.seq \in 1..Len(dispatched)

C6_Witness == Len(dispatched) = 3 /\ Cardinality(OwnPending) = 3

\* The session has dispatched several requests and all of them have settled
AllSettled == activeRef /\ Len(dispatched) >= 2 /\ OwnPending = {}

C8_FailureHandling ==
  [][(ArrivalStep /\ activeRef /\ arrival'.kind \in {"error", "reject"}) =>
       /\ inflightRef' = inflightRef - 1
       /\ state'.error \in FailureMessages
       /\ (arrival'.kind = "error" => state'.error = ResultShapes["failed"].error)
       /\ state'.isAnalyzing = (inflightRef' > 0)
       /\ state' = [state EXCEPT !.error = state'.error,
                                 !.isAnalyzing = state'.isAnalyzing]
       /\ UNCHANGED <<lastDisplayedSeqRef, paceTracker, prevWordCountRef,
                      recentTipTexts>>]_vars

\* A failure arrived while another request of the session was outstanding
C8_Witness ==
  /\ activeRef
  /\ arrival.kind = "reject" /\ arrival.active
  /\ state.error = "Analysis cycle failed"
  /\ state.isAnalyzing
  /\ inflightRef = 1

\* C9: in an active session an error-free response with seq <= lastDisplayedSeq
\* decrements inflight and changes nothing else.
C9_StaleIsDropped ==
  [][(ArrivalStep /\ activeRef /\ arrival'.kind \in {"data", "nodata"}
        /\ ArrivedRequest.seq <= lastDisplayedSeqRef) =>
       /\ inflightRef' = inflightRef - 1
       /\ UNCHANGED <<state, lastDisplayedSeqRef, paceTracker, prevWordCountRef,
                      recentTipTexts>>]_vars

\* A stale response that carried new words and tips has been handled
C9_Witness ==
  /\ activeRef
  /\ arrival = [kind |-> "data", active |-> TRUE, stale |-> TRUE, own |-> TRUE]
  /\ state.cycleCount = 1
  /\ lastDisplayedSeqRef = 2

\* C10: between two start() calls tipHistory only grows at its end, and a
\* step that shortens it is a start().
C10_TipHistoryAppendOnly ==
  [][/\ (session' = session => IsPrefix(state.tipHistory, state'.tipHistory))
     /\ (Len(state'.tipHistory) < Len(state.tipHistory) =>
           session' # session /\ state'.tipHistory = <<>>)]_vars

\* Tips were appended twice in one session
C10_Witness ==
  /\ state.cycleCount >= 2
  /\ Len(state.tipHistory) >= 2

\* C11: a cycle that finds the segment below the minimum size, or inflight
\* at the cap, dispatches nothing, leaves sequence, inflight, lastDisplayedSeq
\* and SessionState alone, and leaves no audio behind for a later cycle.
C11_SkippedCycle ==
  [][(lastOp' \in {"skip", "fire"}
        /\ (TotalSamples(pcmChunksRef) < MIN_AUDIO_SAMPLES
              \/ inflightRef >= MAX_INFLIGHT)) =>
       /\ UNCHANGED <<seqRef, inflightRef, lastDisplayedSeqRef, state, pending,
                      dispatched, fired>>
       /\ pcmChunksRef' = 0]_vars

\* A cycle has just skipped with three requests outstanding
C11_Witness ==
  /\ lastOp = "skip"
  /\ inflightRef = MAX_INFLIGHT
  /\ Cardinality(OwnPending) = MAX_INFLIGHT
  /\ pcmChunksRef = 0
  /\ state.isAnalyzing

\* C12: after start() on a stream without audio track and until the next
\* start(), error is the no-audio-track message, isAnalyzing is false, the
\* session is not active, and no request is dispatched and no pace update runs.
C12_NoAudioStartStaysIdle ==
  (session > 0 /\ ~audioSession) =>
    /\ state.error = NoAudioTrackMessage
    /\ ~state.isAnalyzing
    /\ ~activeRef
    /\ dispatched = <<>>
    /\ paceTicks = 0

\* C13: right after start() on a stream with an audio track every counter is
\* 0, the PaceTracker and the tip window are as new and SessionState is the
\* initial one, whatever happened before.
C13_StartResets ==
  (lastOp = "start" /\ audioSession) =>
    /\ seqRef = 0
    /\ lastDisplayedSeqRef = 0
    /\ inflightRef = 0
    /\ prevWordCountRef = 0
    /\ paceTracker = NewPaceTracker
    /\ recentTipTexts = <<>>
    /\ state = [pitchData |-> NoData, isAnalyzing |-> FALSE, cycleCount |-> 0,
                error |-> Null, tipHistory |-> <<>>, pace |-> RZero,
                transcript |-> <<>>]

\* A second start() with requests of the first session still outstanding
C13_Witness ==
  /\ lastOp = "start"
  /\ audioSession
  /\ session = 2
  /\ Cardinality(pending) >= 2

RLeq(a, b) == ~RLess(b, a)
InUnitRange(x) == RLeq(RMinusOne, x) /\ RLeq(x, ROne)

C15_SilenceDecays ==
  [][(paceTicks' = paceTicks + 1 /\ paceTicks >= 1
        /\ now - paceTracker.lastWordTime > 800) =>
       RLeq(RAbs(paceRet'), RAbs(paceRet))]_vars

\* C16: outside silence, with n timestamps retained and s the smoothed value,
\* update returns clamp(1.1 * (a*raw + (1-a)*s)) where
\* raw = clamp((n/1.8 - 2.5)/2.5) and a = 0.45, 0.30 or 0.15 as |raw - s|
\* exceeds 0.3, exceeds 0.15, or neither; 30 words and s = 0 give 0.495.
C16_Formula(n, s) ==
  LET raw == Clamp(RDiv(RSub(RDiv(<<n, 1>>, <<9, 5>>), <<5, 2>>), <<5, 2>>))
      jump == RAbs(RSub(raw, s))
      a == IF RLess(<<3, 10>>, jump) THEN <<45, 100>>
           ELSE IF RLess(<<15, 100>>, jump) THEN <<30, 100>>
           ELSE <<15, 100>>
      blended == RAdd(RMul(Rat(a[1], a[2]), raw),
                      RMul(RSub(ROne, Rat(a[1], a[2])), s))
  IN [smoothed |-> blended, ret |-> Clamp(RMul(<<11, 10>>, blended))]

TxtPausing == <<"P","a","u","s","i","n","g">>

\* C17: a tip "You should consider X" comes out as "X" capitalised, and
\* cleaning a cleaned text again gives the same text.
C17_AllPrefixesStripped ==
  /\ (tipIn = <<Tip("t4", TxtConsider)>> /\ Len(acceptedLog) = 1) =>
       Texts(tipOut) = <<TxtPausing>>
  /\ \A i \in 1..Len(tipIn) :
       CleanTipText(CleanTipText(tipIn[i].text)) = CleanTipText(tipIn[i].text)

\* Positions of acceptedLog holding text c, and the distinct other texts
\* accepted after the last of them
AcceptedAt(c) == {i \in 1..Len(acceptedLog) : acceptedLog[i] = c}
LastAcceptedAt(c) == CHOOSE i \in AcceptedAt(c) : \A j \in AcceptedAt(c) : j <= i
OthersSince(c) ==
  {acceptedLog[j] : j \in (LastAcceptedAt(c) + 1)..Len(acceptedLog)} \ {c}
InWindow(c) == \E k \in 1..Len(recentTipTexts) : recentTipTexts[k] = c

\* The window holds a text whose normalised form equals, contains or is
\* contained in the normalised form of c
Overlaps(c) ==
  \E k \in 1..Len(recentTipTexts) :
    LET r == normalizeTip(recentTipTexts[k])
        n == normalizeTip(c)
    IN r = n \/ Includes(r, n) \/ Includes(n, r)

LastSix(log) ==
  [i \in 1..(IF Len(log) < 6 THEN Len(log) ELSE 6) |->
     log[i + (IF Len(log) < 6 THEN 0 ELSE Len(log) - 6)]]

\* C18 as claimed: a text accepted earlier is dropped while it is in the
\* window, and accepted again once 7 other distinct tips were accepted since.
C18_AcceptedAgainAfterWindow ==
  [][(Len(tipIn') = 1 /\ AcceptedAt(CleanTipText(tipIn'[1].text)) # {}) =>
       LET c == CleanTipText(tipIn'[1].text)
       IN /\ (InWindow(c) => tipOut' = <<>>)
          /\ (Cardinality(OthersSince(c)) >= 7 => Texts(tipOut') = <<c>>)]_vars

\* C18 amended: it is dropped while in the window; the window is the last 6
\* accepted texts; after 6 other accepted tips it is accepted again unless
\* a text in the window overlaps it.
C18_WindowDedupe ==
  [][(/\ tipIn' # <<>>
      /\ recentTipTexts' = LastSix(acceptedLog')
      /\ (Len(tipIn') = 1 /\ AcceptedAt(CleanTipText(tipIn'[1].text)) # {}) =>
           LET c == CleanTipText(tipIn'[1].text)
           IN /\ (InWindow(c) => tipOut' = <<>>)
              /\ (Len(acceptedLog) - LastAcceptedAt(c) >= 6 => ~InWindow(c))
              /\ (~Overlaps(c) => Texts(tipOut') = <<c>>)
              /\ (Overlaps(c) => tipOut' = <<>>))
     \/ tipIn' = <<>>]_vars

\* "Pause" was accepted, seven other tips were accepted, and it is accepted
\* again
C18_Witness ==
  /\ tipIn = <<Tip("t1", TxtPause)>>
  /\ Len(tipOut) = 1
  /\ Len(acceptedLog) = 9
  /\ acceptedLog[1] = acceptedLog[9]

IsSuffix(a, b) ==
  Len(a) <= Len(b) /\ \A i \in 1..Len(a) : a[i] = b[Len(b) - Len(a) + i]

\* C19 as claimed: a transcript of at most 1500 characters is returned as it
\* is; of a longer one a suffix of at most 1500 characters is returned, and
\* the character just before that suffix is a space.
C19_TailOnWordBoundary ==
  tailIn # <<>> =>
    IF Len(tailIn) <= 1500 THEN tailOut = tailIn
    ELSE /\ IsSuffix(tailOut, tailIn)
         /\ Len(tailOut) <= 1500
         /\ tailIn[Len(tailIn) - Len(tailOut)] = " "

\* Positions (1-based) of the spaces among the last 1500 characters
LateSpaces(t) == {i \in (Len(t) - 1499)..Len(t) : t[i] = " "}

\* C19 amended: of a longer transcript whose last 1500 characters hold a
\* space, what follows the first such space is returned; if they hold none,
\* exactly the last 1500 characters are returned.
C19_TailOfTranscript ==
  tailIn # <<>> =>
    IF Len(tailIn) <= 1500 THEN tailOut = tailIn
    ELSE /\ IsSuffix(tailOut, tailIn)
         /\ Len(tailOut) <= 1500
         /\ IF LateSpaces(tailIn) # {}
            THEN /\ Len(tailIn) - Len(tailOut) \in LateSpaces(tailIn)
                 /\ \A i \in LateSpaces(tailIn) : Len(tailIn) - Len(tailOut) <= i
            ELSE Len(tailOut) = 1500

\* A transcript 3 characters over the budget was cut after a space in its
\* middle
C19_Witness ==
  /\ Len(tailIn) = 1503
  /\ tailIn[1] = " "
  /\ Len(tailOut) = 752
  /\ tailIn[751] = " "

\* How many recorders of the session (the ones in the slots and the ones
\* being harvested) and harvested segments hold frame f
Holders(f) ==
  Cardinality({slot \in Slots : f \in recorders[slot].frames})
    + Cardinality({rec \in stoppingRecorders : rec.collect /\ f \in rec.frames})
    + Cardinality({i \in 1..Len(segments) : f \in segments[i]})

\* C20: no audio frame is captured by both recorders or lands in two
\* harvested segments, and from the first cycle boundary on no frame
\* delivered while the session is active is captured by neither recorder.
C20_HandoffExactlyOnce ==
  /\ \A f \in 1..frameNo : Holders(f) <= 1
  /\ missed = {}

\* C21: in an active session a response of the session whose seq is
\* <= lastDisplayedSeq changes no field of SessionState, error included,
\* whether it carries data, nothing or an error.
C21_StaleNeverVisible ==
  [][(ArrivalStep /\ activeRef /\ ArrivedRequest.session = session
        /\ arrival'.kind \in {"data", "nodata", "error"}
        /\ ArrivedRequest.seq <= lastDisplayedSeqRef) =>
       state' = state]_vars

\* C22: between stop() and the next start() no request is dispatched and no
\* cycle -- one suspended at its await when stop() was called included --
\* changes seq, inflight or SessionState.
C22_StopHaltsSegmenter ==
  [][(~activeRef /\ ~activeRef') =>
       /\ fired' = fired
       /\ pending' \subseteq pending
       /\ seqRef' = seqRef
       /\ (~ArrivalStep => inflightRef' = inflightRef)
       /\ state' = state]_vars

\* C23: in the double-buffered hook a response of the session whose seq is
\* <= lastDisplayedSeq never replaces the running transcript.
C23_TranscriptOfNewest ==
  [][(ArrivalStep /\ activeRef /\ ArrivedRequest.session = session
        /\ ArrivedRequest.seq <= lastDisplayedSeqRef) =>
       transcriptRef' = transcriptRef]_vars

\* C24: an error response or a rejection leaves the session active and its
\* timers and seq alone, and once a request of the session has failed a
\* cycle that finds a large-enough segment and inflight < MAX_INFLIGHT
\* dispatches one request carrying the next seq.
C24_FailuresDoNotHalt ==
  [][/\ (ArrivalStep /\ arrival'.kind \in {"error", "reject"}) =>
          UNCHANGED <<activeRef, intervalRef, paceIntervalRef, seqRef>>
     /\ (/\ lastOp' \in {"skip", "fire"}
         /\ failureSeen
         /\ TotalSamples(pcmChunksRef) >= MIN_AUDIO_SAMPLES
         /\ inflightRef < MAX_INFLIGHT) =>
          /\ lastOp' = "fire"
          /\ activeRef'
          /\ seqRef' = seqRef + 1
          /\ inflightRef' = inflightRef + 1
          /\ pending' = pending \cup
               {[session |-> session, seq |-> seqRef + 1, stopped |-> FALSE]}]_vars

\* After an error response and a rejection the third request was dispatched
C24_Witness ==
  /\ lastOp = "fire"
  /\ activeRef
  /\ failureSeen
  /\ arrival.kind = "reject"
  /\ seqRef = 3
  /\ inflightRef = 1
  /\ OwnPending = {[session |-> session, seq |-> 3, stopped |-> FALSE]}

\* C25: a cycle does not wait for outstanding responses: with requests of
\* the session still unresolved, a large-enough segment and
\* inflight < MAX_INFLIGHT, the cycle dispatches one more request and the
\* earlier ones stay outstanding.
C25_FireAndForget ==
  [][(/\ lastOp' \in {"skip", "fire"}
      /\ OwnPending # {}
      /\ TotalSamples(pcmChunksRef) >= MIN_AUDIO_SAMPLES
      /\ inflightRef < MAX_INFLIGHT) =>
       /\ lastOp' = "fire"
       /\ pending \subseteq pending'
       /\ Cardinality(pending') = Cardinality(pending) + 1
       /\ inflightRef' = inflightRef + 1
       /\ state'.isAnalyzing]_vars

\* Three requests are outstanding at once and no response has arrived yet
C25_Witness ==
  /\ lastOp = "fire"
  /\ arrival = NoArrival
  /\ Cardinality(OwnPending) = 3
  /\ inflightRef = 3
  /\ dispatched = <<1, 2, 3>>

\* a is b with some elements left out
RECURSIVE IsSubsequence(_, _)
IsSubsequence(a, b) ==
  IF a = <<>> THEN TRUE
  ELSE IF b = <<>> THEN FALSE
  ELSE IF Head(a) = Head(b) THEN IsSubsequence(Tail(a), Tail(b))
  ELSE IsSubsequence(a, Tail(b))

TipIds(tips) == [i \in 1..Len(tips) |-> tips[i].id]

\* C26: every tip sanitizeTips returns has a non-empty text of at most
\* MAX_TIP_WORDS words, and the returned tips are input tips, in input order.
C26_TipsShortAndOrdered ==
  /\ \A i \in 1..Len(tipOut) :
       /\ Len(tipOut[i].text) > 0
       /\ countWords(tipOut[i].text) \in 1..MAX_TIP_WORDS
  /\ IsSubsequence(TipIds(tipOut), TipIds(tipIn))

\* A batch of three: one became empty, one was cut from fifteen words, one
\* passed as it was
C26_Witness ==
  /\ TipIds(tipIn) = <<"t11", "t12", "t2">>
  /\ countWords(tipIn[2].text) > MAX_TIP_WORDS
  /\ TipIds(tipOut) = <<"t12", "t2">>
  /\ countWords(tipOut[1].text) = MAX_TIP_WORDS - 1

\* C27: after every sanitizeTips call the window holds at most
\* RECENT_TIPS_WINDOW texts: the texts accepted last since the reset, in the
\* order of acceptance, and no text of a dropped tip.
C27_WindowIsLastAccepted ==
  /\ Len(recentTipTexts) <= RECENT_TIPS_WINDOW
  /\ recentTipTexts = LastSix(acceptedLog)
  /\ (Len(tipOut) <= RECENT_TIPS_WINDOW =>
        IsSubsequence(Texts(tipOut), recentTipTexts))

\* The window is full, older accepted texts have left it, and the last call
\* dropped one of its tips
C27_Witness ==
  /\ Len(acceptedLog) > RECENT_TIPS_WINDOW
  /\ Len(recentTipTexts) = RECENT_TIPS_WINDOW
  /\ Len(tipIn) = 2
  /\ Len(tipOut) = 1

\* C28: when update(now) returns, the tracker holds no word timestamp
\* older than now - WINDOW_MS, whatever addWords calls preceded it.
C28_NoTimestampOutsideWindow ==
  [][paceTicks' = paceTicks + 1 =>
       \A i \in 1..Len(paceTracker'.wordTimestamps) :
         paceTracker'.wordTimestamps[i] >= now - WINDOW_MS]_vars

\* C29: in every reachable state inflight is >= 0 and is the number of
\* requests dispatched and not yet resolved or rejected.
C29_InflightCountsOutstanding ==
  /\ inflightRef >= 0
  /\ inflightRef = Cardinality(pending)

\* C30: while the session is active and no request is outstanding,
\* isAnalyzing is false.
C30_IdleWhenNothingOutstanding ==
  (activeRef /\ pending = {}) => ~state.isAnalyzing

\* C31: in every reachable state 0 <= cycleCount <= lastDisplayedSeq <=
\* seq: what is on display was dispatched in the current session, and no
\* more responses were accepted than seqs were displayed.
C31_CountersOrdered ==
  /\ 0 <= state.cycleCount
  /\ state.cycleCount <= lastDisplayedSeqRef
  /\ lastDisplayedSeqRef <= seqRef

\* C38: an error shown after a failed response stays in SessionState.error
\* until a response is accepted or start() resets the session; no other step,
\* dispatching a segment in particular, clears it.
C38_ErrorStaysVisible ==
  [][(state.error \in FailureMessages /\ state'.error # state.error) =>
       \/ lastOp' = "start"
       \/ /\ ArrivalStep
          /\ \/ arrival'.kind = "data" /\ state'.cycleCount = state.cycleCount + 1
             \/ arrival'.kind \in {"error", "reject"}]_vars

\* Two texts are duplicates of each other: equal once normalized, or one
\* containing the other
DuplicatesOfEachOther(a, b) ==
  LET na == normalizeTip(a)
      nb == normalizeTip(b)
  IN na = nb \/ Includes(na, nb) \/ Includes(nb, na)

\* C32: the list one sanitizeTips call returns holds no two tips that are
\* duplicates of each other.
C32_NoDuplicatesInBatch ==
  \A i, j \in 1..Len(tipOut) :
    i < j => ~DuplicatesOfEachOther(tipOut[i].text, tipOut[j].text)

\* A text no response of the service carries, so never in the window
TxtFresh == <<"N","o","d"," ","l","e","s","s">>

\* sanitizeTips would return a tip with this text if called now
AcceptedNow(text) ==
  sanitizeTips(<<Tip("probe", text)>>, recentTipTexts).cleaned # <<>>

\* C33: from every reachable window some non-empty tip text is accepted by
\* the next sanitizeTips call.
C33_SomeTipAcceptable ==
  \E text \in {TxtFresh} \cup
                UNION {{tips[i].text : i \in 1..Len(tips)} : tips \in TipBatches} :
    AcceptedNow(text)

Settled(c) == c <= Len(wire.calls) /\ wire.calls[c].phase \in {"resolved", "rejected"}

\* C34: every call of RealtimeService.analyzeAudio eventually settles, given
\* that the server answers each response.create (or the socket closes, or
\* disconnect() is called): once a call has been made, its promise is
\* eventually resolved or rejected, also when calls overlap.
C34_EveryCallSettles ==
  \A c \in 1..MaxCalls : (c <= Len(wire.calls)) ~> Settled(c)

\* C35: the response.done that answers the k-th response.create resolves the
\* promise of the k-th analyzeAudio call and of no other: a resolved call
\* holds the data of its own response, and its transcript ends with its own
\* segment.
C35_ResponseToItsCall ==
  \A c \in 1..Len(wire.calls) :
    wire.calls[c].phase = "resolved" =>
      /\ wire.calls[c].answer = c
      /\ wire.calls[c].transcript # <<>>
      /\ wire.calls[c].transcript[Len(wire.calls[c].transcript)] = c

\* C36: the 'close' event of a socket that disconnect() closed leaves the
\* service as it is: the current socket, the connect promise and the pending
\* request (of the connection made since) are not touched by it.
C36_LateCloseIsHarmless ==
  [][\A s \in 1..Len(wire.sockets) :
       (wire.sockets[s].state = "closing" /\ wire'.sockets[s].state = "closed") =>
         /\ realtimeService'.ws = realtimeService.ws
         /\ realtimeService'.connectPromise = realtimeService.connectPromise
         /\ realtimeService'.pending = realtimeService.pending
         /\ \A c \in 1..Len(wire.calls) : wire'.calls[c].phase = wire.calls[c].phase]_vars

Contains(text, part) ==
  \E i \in 0..(Len(text) - Len(part)) : SubSeq(text, i + 1, i + Len(part)) = part

AppliedUpTo(k) ==
  \A j \in 1..k : \E m \in sent : m.session = session /\ m.seq = j /\ m.applied

\* C37: in the hook that passes the transcript as context no transcript
\* increment is lost: once the responses of requests 1..k of the session
\* have been applied, the running transcript contains the text of each of
\* the segments 1..k.
C37_NoIncrementLost ==
  \A k \in 1..MaxContextCycles :
    AppliedUpTo(k) => \A j \in 1..k : Contains(transcriptRef, SegmentText(j))

====
